---------------------------- MODULE Spec2Model ----------------------------
(***************************************************************************)
(* A model of the NotionalSQLite decoding session (src/NotionalSQLite.py)  *)
(* and of the SQLitezer driver (src/SQLitezer.py).                         *)
(*                                                                         *)
(* The database file is a sequence of bytes (0..255); file offset o is     *)
(* element o + 1 of the sequence.  Python integers are unbounded: a varint *)
(* value is kept as a sequence of base-128 limbs, least significant first, *)
(* so that 9-byte varints do not leave the range of the model checker.     *)
(***************************************************************************)
EXTENDS Integers, Sequences, FiniteSets, TLC

VARIABLES
    dbfile,          \* the bytes of the file behind self.dbfile
    canOpen,         \* whether open(filepath,"rb") succeeds
    isOpen,          \* self.dbfile is a file object (None before the open)
    fpos,            \* the position of the file handle (seek/read/tell)
    statuscode,      \* NotionalSQLite.statuscode
    headerdict,      \* NotionalSQLite.headerdict
    headertransdict, \* NotionalSQLite.headertransdict
    isWAL,           \* NotionalSQLite.isWAL
    pc,              \* where the caller (main, or the running method) stands
    calls,           \* the session methods main has called, in order
    frame,           \* the locals of the running method
    result,          \* what the last method returned
    fault            \* the exception that escaped, "none" if none did

vars == <<dbfile, canOpen, isOpen, fpos, statuscode, headerdict, headertransdict,
          isWAL, pc, calls, frame, result, fault>>

-----------------------------------------------------------------------------
(* Bounds of the model. *)

\* longest file tail over the full varint byte alphabet
MaxShortLen == 3
\* longest file tail over the two-byte alphabet (runs of continuation bytes)
MaxRunLen == 10
\* the size of the pages of the files the scans and the driver are run on
PageUnit == 50
\* the most pages a scanned file holds after its header
MaxScanPages == 2
\* the most turns of a scan loop that never ends (page size 0)
MaxTurns == 6
\* how far past pagesize / 4 blocks a free-block walk is followed
MaxOverrun == 2

-----------------------------------------------------------------------------
(* Bytes, the file handle. *)

Min(a, b) == IF a < b THEN a ELSE b

RECURSIVE Pow2(_)
Pow2(n) == IF n = 0 THEN 1 ELSE 2 * Pow2(n - 1)

\* all sequences over S of length lo..hi
SeqsOf(S, lo, hi) == UNION { [1..n -> S] : n \in lo..hi }

\* file.read(n) at position p: the bytes, fewer than n at the end of the
\* file, all the rest of the file when n is negative.
FileRead(f, p, n) ==
    IF n < 0 THEN SubSeq(f, p + 1, Len(f))
    ELSE SubSeq(f, p + 1, Min(p + n, Len(f)))

\* struct.unpack(">h", two bytes)
UnpackShort(b) ==
    LET u == b[1] * 256 + b[2] IN IF u >= 32768 THEN u - 65536 ELSE u

\* struct.unpack(">H", two bytes)
UnpackUShort(b) == b[1] * 256 + b[2]

\* struct.unpack(">b", one byte)
UnpackSByte(b) == IF b >= 128 THEN b - 256 ELSE b

\* struct.unpack(">i", four bytes)
UnpackInt(b) ==
    (IF b[1] >= 128 THEN b[1] - 256 ELSE b[1]) * 16777216
        + b[2] * 65536 + b[3] * 256 + b[4]


-----------------------------------------------------------------------------
(* Unbounded integers as base-128 limbs, least significant limb first. *)

\* v + d * 128^i, for d >= 0
RECURSIVE BigAddAt(_, _, _)
BigAddAt(v, i, d) ==
    IF d = 0 THEN v
    ELSE IF i + 1 > Len(v) THEN BigAddAt(Append(v, 0), i, d)
    ELSE LET s == v[i + 1] + d
         IN  BigAddAt([v EXCEPT ![i + 1] = s % 128], i + 1, s \div 128)

\* the number a limb sequence stands for (short sequences only)
RECURSIVE BigToNat(_)
BigToNat(v) ==
    IF v = <<>> THEN 0 ELSE v[1] + 128 * BigToNat(Tail(v))

-----------------------------------------------------------------------------
(* The 100-byte database header as bytes. *)

\* the length of the header _parseDBHeader reads
HeaderLen == 100

\* "SQLite format 3\x00"
Magic == <<83, 81, 76, 105, 116, 101, 32, 102, 111, 114, 109, 97, 116, 32, 51, 0>>

\* a four-byte big-endian field holding a small number
SmallInt(n) == <<0, 0, 0, n>>

\* the header of a well-formed database: page size 1024, legacy journalling,
\* payload fractions 64/32/32, change counter 5 = version-valid-for, 3 pages,
\* schema format 4, UTF-8, library version 3007017
BaseHeader ==
    Magic \o <<4, 0>> \o <<1, 1, 0, 64, 32, 32>>
          \o SmallInt(5) \o SmallInt(3) \o SmallInt(0) \o SmallInt(0)
          \o SmallInt(7) \o SmallInt(4) \o SmallInt(0) \o SmallInt(0)
          \o SmallInt(1) \o SmallInt(0) \o SmallInt(0)
          \o [i \in 1..24 |-> 0]
          \o SmallInt(5) \o <<0, 45, 226, 41>>

-----------------------------------------------------------------------------
(* str(), "%s" and "{:02x}" of Python. *)

Digits == <<"0", "1", "2", "3", "4", "5", "6", "7", "8", "9",
            "a", "b", "c", "d", "e", "f">>

RECURSIVE NatStr(_)
NatStr(n) == IF n < 10 THEN Digits[n + 1] ELSE NatStr(n \div 10) \o Digits[(n % 10) + 1]

\* str(n) of an integer
Str(n) == IF n < 0 THEN "-" \o NatStr(0 - n) ELSE NatStr(n)

\* "{:02x}".format(b)
Hex2(b) == Digits[(b \div 16) + 1] \o Digits[(b % 16) + 1]

\* ":".join("{:02x}".format(ord(c)) for c in bytes)
RECURSIVE HexJoin(_)
HexJoin(b) ==
    IF b = <<>> THEN ""
    ELSE IF Len(b) = 1 THEN Hex2(b[1])
    ELSE Hex2(b[1]) \o ":" \o HexJoin(Tail(b))

-----------------------------------------------------------------------------
(* The header dictionaries. *)

\* _dictkeys
DictKeys == {"sig", "pagesize", "writever", "readver", "resspace", "maxpayload",
             "minpayload", "leafpayload", "changecount", "dbsize", "freepagelist",
             "totalfreepage", "schemacookie", "schemanum", "defpagecache",
             "bigroottree", "textencode", "userver", "incvac", "expansion",
             "validfor", "sqlver"}

\* the two dictionaries as the loop of __init__ fills them
UnreadHeaderDict == [k \in DictKeys |-> "ERROR - Could not read value."]
UntranslatedDict == [k \in DictKeys |-> "ERROR - call translateHeader() first."]

\* the four-byte signed field at offset o of the raw header
IntAt(raw, o) == UnpackInt(SubSeq(raw, o + 1, o + 4))

\* struct.unpack(_dbheaderfmt, rawheader) zipped with _dictkeys
UnpackHeader(raw) ==
    [sig           |-> SubSeq(raw, 1, 16),
     pagesize      |-> UnpackUShort(SubSeq(raw, 17, 18)),
     writever      |-> UnpackSByte(raw[19]),
     readver       |-> UnpackSByte(raw[20]),
     resspace      |-> UnpackSByte(raw[21]),
     maxpayload    |-> UnpackSByte(raw[22]),
     minpayload    |-> UnpackSByte(raw[23]),
     leafpayload   |-> UnpackSByte(raw[24]),
     changecount   |-> IntAt(raw, 24),
     dbsize        |-> IntAt(raw, 28),
     freepagelist  |-> IntAt(raw, 32),
     totalfreepage |-> IntAt(raw, 36),
     schemacookie  |-> IntAt(raw, 40),
     schemanum     |-> IntAt(raw, 44),
     defpagecache  |-> IntAt(raw, 48),
     bigroottree   |-> IntAt(raw, 52),
     textencode    |-> IntAt(raw, 56),
     userver       |-> IntAt(raw, 60),
     incvac        |-> IntAt(raw, 64),
     expansion     |-> SubSeq(raw, 69, 92),
     validfor      |-> IntAt(raw, 92),
     sqlver        |-> IntAt(raw, 96)]

\* _parseDBHeader: the header dictionary, isWAL, and the exception raised
\* (struct.unpack of fewer than 100 bytes is a struct.error)
ParseDBHeader(f) ==
    LET rawheader == FileRead(f, 0, HeaderLen)
    IN  IF Len(rawheader) /= HeaderLen
        THEN [fault |-> "struct.error", dict |-> UnreadHeaderDict, wal |-> FALSE,
              pos |-> Len(rawheader)]
        ELSE LET hd == UnpackHeader(rawheader)
             IN  [fault |-> "none", dict |-> hd,
                  wal |-> (hd.readver = 2) \/ (hd.writever = 2),
                  pos |-> HeaderLen]

\* a signature check that accepts every header
CheckSignatureAny(hd) == TRUE

\* checkSignature
CheckSignature(hd) == hd.sig = Magic

-----------------------------------------------------------------------------
(* translateHeader *)

LegacyOrWAL(v) ==
    IF v = 1 THEN "Legacy - Roll Back Journalling"
    ELSE "WAL - Write Ahead Log Journalling"

\* lines 401-437: signature, page size, format versions, reserved bytes
TranslateHead(hd, td) ==
    LET t1 == [td EXCEPT !.sig = IF hd.sig = Magic THEN hd.sig ELSE "Invalid Signature"]
        t2 == [t1 EXCEPT !.pagesize =
                   IF hd.pagesize = -32768 THEN "65536 - SQLite v.3.7.1 or greater"
                   ELSE Str(hd.pagesize)]
        t3 == IF hd.writever > 2 /\ hd.readver \in {1, 2}
              THEN [t2 EXCEPT !.writever = "READ-ONLY",
                              !.readver = LegacyOrWAL(hd.readver)]
              ELSE IF hd.readver > 2
              THEN [t2 EXCEPT !.readver = "Read and Write Disabled.",
                              !.writever = LegacyOrWAL(hd.writever)]
              ELSE IF hd.writever \in {1, 2} /\ hd.readver \in {1, 2}
              THEN [t2 EXCEPT !.readver = LegacyOrWAL(hd.readver),
                              !.writever = LegacyOrWAL(hd.writever)]
              ELSE [t2 EXCEPT !.readver = "Invalid Value: " \o Str(hd.readver),
                              !.writever = "Invalid Value: " \o Str(hd.writever)]
    IN  [t3 EXCEPT !.resspace = Str(hd.resspace)]

\* lines 451-505: everything after the payload fractions
TranslateTail(hd, td, wal) ==
    LET t1 == [td EXCEPT !.changecount =
                   IF wal THEN Str(hd.changecount) \o " (WAL enabled - value may be inaccurate.)"
                   ELSE Str(hd.changecount)]
        t2 == [t1 EXCEPT !.dbsize =
                   IF hd.changecount = hd.validfor /\ hd.dbsize > 0
                   THEN Str(hd.dbsize) \o " page(s)"
                   ELSE "Invalid value: " \o Str(hd.dbsize)]
        t3 == [t2 EXCEPT !.freepagelist = Str(hd.freepagelist),
                         !.totalfreepage = Str(hd.totalfreepage),
                         !.schemacookie = Str(hd.schemacookie)]
        t4 == [t3 EXCEPT !.schemanum =
                   IF hd.schemanum = 1 THEN "1 - SQLite 3.0.0+ Compatible"
                   ELSE IF hd.schemanum = 2 THEN "2 - SQLite 3.1.3+ Compatible"
                   ELSE IF hd.schemanum = 3 THEN "3 - SQLite 3.1.4+ Compatible"
                   ELSE IF hd.schemanum = 4 THEN "4 - SQLite 3.3.0+ Compatible"
                   ELSE "Invalid value: " \o Str(hd.schemanum)]
        t5 == [t4 EXCEPT !.defpagecache = Str(hd.defpagecache)]
        t6 == IF hd.bigroottree = 0
              THEN [t5 EXCEPT !.bigroottree = "0 - ptrmap pages disabled",
                              !.incvac = IF hd.incvac = 0 THEN "0 - auto_vacuum mode"
                                         ELSE "Invalid mode: " \o Str(hd.incvac)]
              ELSE [t5 EXCEPT !.bigroottree = Str(hd.bigroottree),
                              !.incvac = Str(hd.incvac) \o " - incremental_vacuum mode"]
        t7 == [t6 EXCEPT !.textencode =
                   IF hd.textencode = 1 THEN "UTF-8"
                   ELSE IF hd.textencode = 2 THEN "UTF-16LE"
                   ELSE IF hd.textencode = 3 THEN "UTF-16BE"
                   ELSE "Invalid Encoding: " \o Str(hd.textencode)]
    IN  [t7 EXCEPT !.userver = Str(hd.userver),
                   !.expansion = HexJoin(hd.expansion),
                   !.validfor = hd.validfor,
                   !.sqlver = hd.sqlver]

\* translateHeader: the dictionary as the call leaves it and the exception
\* raised.  Lines 442, 446 and 450 read headerdict, a name no scope defines
\* (the attribute is self.headerdict): a NameError, which leaves the entries
\* written so far in the dictionary.
TranslateHeader(hd, td, wal) ==
    LET t4 == TranslateHead(hd, td)
        t5 == [t4 EXCEPT !.maxpayload = "64"]
        t6 == [t5 EXCEPT !.minpayload = "32"]
        t7 == [t6 EXCEPT !.leafpayload = "32"]
    IN  IF hd.maxpayload /= 64 THEN [fault |-> "NameError", dict |-> t4]
        ELSE IF hd.minpayload /= 32 THEN [fault |-> "NameError", dict |-> t5]
        ELSE IF hd.leafpayload /= 32 THEN [fault |-> "NameError", dict |-> t6]
        ELSE [fault |-> "none", dict |-> TranslateTail(hd, t7, wal)]

-----------------------------------------------------------------------------
(* getPageTypeDict and mapPages: the two whole-file page scans. *)

EmptyPageDict ==
    [intindex |-> <<>>, inttable |-> <<>>, leafindex |-> <<>>,
     leaftable |-> <<>>, overflow |-> <<>>]

\* the locals of getPageTypeDict before its loop
PageTypeStart(pagesize) ==
    [op |-> "getPageTypeDict", pagesize |-> pagesize, pagedict |-> EmptyPageDict,
     offset |-> 0, broke |-> FALSE, turns |-> 0]

\* PageTypeBranch with the leaf-index pages put into the leaf-table list
PageTypeBranchMixed(st, flag) ==
    IF flag = 2 THEN [st EXCEPT !.pagedict.intindex = Append(@, st.offset)]
    ELSE IF flag = 5 THEN [st EXCEPT !.pagedict.inttable = Append(@, st.offset)]
    ELSE IF flag = 10 THEN [st EXCEPT !.pagedict.leaftable = Append(@, st.offset)]
    ELSE IF flag = 13 THEN [st EXCEPT !.pagedict.leaftable = Append(@, st.offset)]
    ELSE IF flag = 83 THEN st
    ELSE IF flag = 0 THEN [st EXCEPT !.pagedict.overflow = Append(@, st.offset)]
    ELSE [st EXCEPT !.broke = TRUE]

\* the branch of the loop body of getPageTypeDict that the flag byte selects
PageTypeBranch(st, flag) ==
    IF flag = 2 THEN [st EXCEPT !.pagedict.intindex = Append(@, st.offset)]
    ELSE IF flag = 5 THEN [st EXCEPT !.pagedict.inttable = Append(@, st.offset)]
    ELSE IF flag = 10 THEN [st EXCEPT !.pagedict.leafindex = Append(@, st.offset)]
    ELSE IF flag = 13 THEN [st EXCEPT !.pagedict.leaftable = Append(@, st.offset)]
    ELSE IF flag = 83 THEN st
    ELSE IF flag = 0 THEN [st EXCEPT !.pagedict.overflow = Append(@, st.offset)]
    ELSE [st EXCEPT !.broke = TRUE]

\* one turn of the while loop of getPageTypeDict (offset < filesize holds):
\* seek, read the flag byte, record, and step unless the turn ended in break
PageTypeIter(f, st) ==
    LET st2 == PageTypeBranch(st, f[st.offset + 1])
    IN  IF st2.broke THEN [st2 EXCEPT !.turns = @ + 1]
        ELSE [st2 EXCEPT !.offset = @ + st.pagesize, !.turns = @ + 1]

\* the locals of mapPages before its loop
MapPagesStart(pagesize) ==
    [op |-> "mapPages", pagesize |-> pagesize, pagemap |-> "", intindex |-> 0,
     inttbl |-> 0, leafindex |-> 0, leaftbl |-> 0, headercnt |-> 0,
     overflow |-> 0, offset |-> 0, broke |-> FALSE, turns |-> 0]

\* the branch of the loop body of mapPages that the flag byte selects
MapPagesBranch(st, flag) ==
    IF flag = 2 THEN [st EXCEPT !.pagemap = @ \o "i", !.intindex = @ + 1]
    ELSE IF flag = 5 THEN [st EXCEPT !.pagemap = @ \o "t", !.inttbl = @ + 1]
    ELSE IF flag = 10 THEN [st EXCEPT !.pagemap = @ \o "I", !.leafindex = @ + 1]
    ELSE IF flag = 13 THEN [st EXCEPT !.pagemap = @ \o "T", !.leaftbl = @ + 1]
    ELSE IF flag = 83 THEN [st EXCEPT !.pagemap = @ \o "h", !.headercnt = @ + 1]
    ELSE [st EXCEPT !.pagemap = @ \o "O", !.overflow = @ + 1]

\* one turn of the while loop of mapPages
MapPagesIter(f, st) ==
    [MapPagesBranch(st, f[st.offset + 1]) EXCEPT !.offset = @ + st.pagesize,
                                                 !.turns = @ + 1]

\* one turn of the loop of whichever scan st belongs to
ScanIter(f, st) ==
    IF st.op = "getPageTypeDict" THEN PageTypeIter(f, st) ELSE MapPagesIter(f, st)

\* the loop has ended: the while condition is false, or break was taken
ScanOver(f, st) == st.broke \/ ~(st.offset < Len(f))

\* what the scan returns from its final locals
ScanResult(st) ==
    IF st.op = "getPageTypeDict" THEN st.pagedict
    ELSE <<st.pagemap, st.intindex, st.inttbl, st.leafindex, st.leaftbl,
           st.headercnt, st.overflow,
           st.intindex + st.inttbl + st.leafindex + st.leaftbl + st.headercnt
               + st.overflow>>

\* at most n more turns of the loop
RECURSIVE ScanTurns(_, _, _)
ScanTurns(f, st, n) ==
    IF n = 0 \/ ScanOver(f, st) THEN st ELSE ScanTurns(f, ScanIter(f, st), n - 1)

\* the loop run to its end, for a scan that ends (sixteen turns at a time,
\* which keeps the evaluation shallow)
RECURSIVE ScanRun(_, _)
ScanRun(f, st) == IF ScanOver(f, st) THEN st ELSE ScanRun(f, ScanTurns(f, st, 16))

\* the scan never ends: with a page size of 0 the offset stays 0, and the
\* byte there never leads to the break of getPageTypeDict
ScanHangs(f, st) ==
    /\ st.pagesize = 0
    /\ Len(f) > 0
    /\ st.op = "getPageTypeDict" => f[1] \in {2, 5, 10, 13, 83, 0}

-----------------------------------------------------------------------------
(* _strip_nonprintable, _parseTableLeafPageHeader, getUnallocContent *)

\* IsControl without the range 127..159
IsControlLow(b) == b >= 0 /\ b < 32

\* the bytes of control_chars: 0..31 and 127..159
IsControl(b) == (b >= 0 /\ b < 32) \/ (b >= 127 /\ b < 160)

\* _strip_nonprintable
StripNonprintable(b) == SelectSeq(b, LAMBDA x : ~IsControl(x))

\* the locals of a call that ends in the exception e
Raised(op, offset, pagesize, e, pos) ==
    [op |-> op, offset |-> offset, pagesize |-> pagesize, fault |-> e, pos |-> pos]

\* lines 74-93: the fixed fields, the cell pointer array, and the seek to
\* the first free block.  ord('') is a TypeError, struct.unpack of a short
\* read a struct.error, a seek before the start of the file an IOError.
LeafHeaderStart(f, op, offset, pagesize) ==
    LET fixed == FileRead(f, offset, 8)
    IN  IF Len(fixed) = 0 THEN Raised(op, offset, pagesize, "TypeError", Len(f))
        ELSE IF Len(fixed) < 7 THEN Raised(op, offset, pagesize, "struct.error", Len(f))
        ELSE IF Len(fixed) < 8 THEN Raised(op, offset, pagesize, "TypeError", Len(f))
        ELSE
        LET pageheader ==
                [pagetype |-> fixed[1],
                 freeblockofs |-> UnpackShort(SubSeq(fixed, 2, 3)),
                 pagecellcount |-> UnpackShort(SubSeq(fixed, 4, 5)),
                 contentareaofs |-> UnpackShort(SubSeq(fixed, 6, 7)),
                 freebytefrags |-> fixed[8]]
            n == IF pageheader.pagecellcount > 0 THEN pageheader.pagecellcount ELSE 0
            ptrs == FileRead(f, offset + 8, 2 * n)
        IN  IF Len(ptrs) < 2 * n
            THEN Raised(op, offset, pagesize, "struct.error", Len(f))
            ELSE IF offset + pageheader.freeblockofs < 0
            THEN Raised(op, offset, pagesize, "IOError", offset + 8 + 2 * n)
            ELSE [op |-> op, offset |-> offset, pagesize |-> pagesize,
                  fault |-> "none",
                  pos |-> offset + pageheader.freeblockofs,
                  pageheader |-> pageheader,
                  celllist |-> [i \in 1..n |-> UnpackShort(SubSeq(ptrs, 2 * i - 1, 2 * i))],
                  freeblklist |-> <<>>,
                  cellptrendofs |-> (offset + 8 + 2 * n) - offset,
                  freeblkptr |-> pageheader.freeblockofs]

\* one turn of the while loop of lines 94-97, the handle at position pos
FreeblockIter(f, st) ==
    LET next == FileRead(f, st.pos, 2)
        appended == [st EXCEPT !.freeblklist = Append(@, st.freeblkptr)]
    IN  IF Len(next) < 2
        THEN [appended EXCEPT !.fault = "struct.error", !.pos = Len(f)]
        ELSE IF st.offset + UnpackShort(next) < 0
        THEN [appended EXCEPT !.fault = "IOError", !.pos = st.pos + 2,
                              !.freeblkptr = UnpackShort(next)]
        ELSE [appended EXCEPT !.freeblkptr = UnpackShort(next),
                              !.pos = st.offset + UnpackShort(next)]

\* what _parseTableLeafPageHeader returns from its final locals
LeafHeaderResult(st) == <<st.pageheader, st.celllist, st.freeblklist, st.cellptrendofs>>

\* lines 334-336: the region between the cell pointer array and the content
\* area; read(length) with a negative length reads to the end of the file
GapRegion(f, st) ==
    LET length == st.pageheader.contentareaofs - st.cellptrendofs
    IN  <<st.offset + st.cellptrendofs, "Unallocated", length,
          StripNonprintable(FileRead(f, st.offset + st.cellptrendofs, length))>>

\* lines 338-340: the region of the free block at page offset freeblk
FreeRegion(f, offset, freeblk) ==
    LET freeblklen == UnpackUShort(FileRead(f, offset + freeblk + 2, 2))
    IN  <<offset + freeblk, "Free Block", freeblklen,
          StripNonprintable(FileRead(f, offset + freeblk + 4, freeblklen - 4))>>

\* the first free block of the list whose length field cannot be read
\* (struct.error), 0 when there is none
FirstShortBlock(f, offset, blks) ==
    LET bad == { i \in 1..Len(blks) : Len(FileRead(f, offset + blks[i] + 2, 2)) < 2 }
    IN  IF bad = {} THEN 0 ELSE CHOOSE i \in bad : \A j \in bad : i <= j

\* the position of the handle after read(n) at position p
PosAfterRead(f, p, n) ==
    IF p >= Len(f) THEN p ELSE IF n < 0 THEN Len(f) ELSE Min(Len(f), p + n)

\* lines 332-341 after the page header is parsed: the list of regions, the
\* exception raised, and the position of the handle
UnallocContent(f, st) ==
    LET bad == FirstShortBlock(f, st.offset, st.freeblklist)
        gap == GapRegion(f, st)
        blks == st.freeblklist
        last == FreeRegion(f, st.offset, blks[Len(blks)])
    IN  IF bad /= 0 THEN [fault |-> "struct.error", list |-> <<>>, pos |-> Len(f)]
        ELSE [fault |-> "none",
              list |-> <<gap>> \o [i \in 1..Len(blks) |-> FreeRegion(f, st.offset, blks[i])],
              pos |-> IF blks = <<>>
                      THEN PosAfterRead(f, st.offset + st.cellptrendofs, gap[3])
                      ELSE PosAfterRead(f, st.offset + blks[Len(blks)] + 4, last[3] - 4)]

-----------------------------------------------------------------------------
(* _getVarIntOfs *)

\* the first loop: the number of bytes read up to and including the first
\* whose bit 7 is clear; 0 when read(1) returned '' (end of file) before one
RECURSIVE VarIntScan(_, _, _)
VarIntScan(f, p, n) ==
    IF p >= Len(f) THEN 0
    ELSE IF (f[p + 1] \div 128) % 2 /= 0 THEN VarIntScan(f, p + 1, n + 1)
    ELSE n + 1

\* VarIntTerm without the "- 128" of line 254
VarIntTermRaw(byteval, i) == byteval

\* what one byte adds to varintval, as a multiple of 2^(7i)
VarIntTerm(byteval, i) == IF i = 0 THEN byteval ELSE byteval - 128

\* the second loop: i runs from varintlen - 1 down to 0, one byte per turn
RECURSIVE VarIntSum(_, _, _, _)
VarIntSum(f, p, i, acc) ==
    LET byteval == f[p + 1]
        acc2 == BigAddAt(acc, i, VarIntTerm(byteval, i))
    IN  IF i = 0 THEN acc2 ELSE VarIntSum(f, p + 1, i - 1, acc2)

\* GetVarIntOfs without the seeks of lines 238 and 247: it reads where the
\* handle stands
GetVarIntOfsNoSeek(f, offset) ==
    LET varintlen == VarIntScan(f, fpos, 0)
    IN  IF varintlen = 0
        THEN [fault |-> "TypeError", val |-> <<>>, len |-> 0, pos |-> Len(f)]
        ELSE [fault |-> "none",
              val |-> VarIntSum(f, fpos, varintlen - 1, <<>>),
              len |-> varintlen,
              pos |-> fpos + varintlen]

\* _getVarIntOfs(offset): the value, the length, the handle's position after
\* the call, and the exception raised (ord('') is a TypeError)
GetVarIntOfs(f, offset) ==
    LET varintlen == VarIntScan(f, offset, 0)
    IN  IF varintlen = 0
        THEN [fault |-> "TypeError", val |-> <<>>, len |-> 0, pos |-> Len(f)]
        ELSE [fault |-> "none",
              val |-> VarIntSum(f, offset, varintlen - 1, <<>>),
              len |-> varintlen,
              pos |-> offset + varintlen]

-----------------------------------------------------------------------------
(* The varint specification: a session on a file whose bytes after the     *)
(* header are drawn from small alphabets, and calls of _getVarIntOfs.      *)

\* 0x00, 0x01, 0x05, 0x81, 0xFF
VarintBytes == {0, 1, 5, 129, 255}

\* a continuation byte and a terminal byte, for long runs
RunBytes == {255, 1}

VarintTails ==
    SeqsOf(VarintBytes, 0, MaxShortLen) \cup SeqsOf(RunBytes, MaxShortLen + 1, MaxRunLen)

\* the state of a session whose constructor has returned normally
Opened(f) ==
    /\ dbfile = f
    /\ canOpen = TRUE
    /\ isOpen = TRUE
    /\ fpos = ParseDBHeader(f).pos
    /\ statuscode = 0
    /\ headerdict = ParseDBHeader(f).dict
    /\ headertransdict = UntranslatedDict
    /\ isWAL = ParseDBHeader(f).wal
    /\ pc = "idle"
    /\ calls = <<>>
    /\ frame = [op |-> "none"]
    /\ result = <<>>
    /\ fault = "none"

InitVarint == \E t \in VarintTails : Opened(BaseHeader \o t)

CallGetVarIntOfs(offset) ==
    /\ pc = "idle"
    /\ LET r == GetVarIntOfs(dbfile, offset)
       IN  /\ frame' = [op |-> "_getVarIntOfs", offset |-> offset]
           /\ fault' = r.fault
           /\ result' = IF r.fault = "none" THEN <<r.val, r.len>> ELSE <<>>
           /\ fpos' = r.pos
    /\ UNCHANGED <<dbfile, canOpen, isOpen, statuscode, headerdict, headertransdict,
                   isWAL, pc, calls>>

NextVarint == \E offset \in HeaderLen..Len(dbfile) : CallGetVarIntOfs(offset)

SpecVarint == InitVarint /\ [][NextVarint]_vars

-----------------------------------------------------------------------------
(* The driver: main of SQLitezer.py on one file.                           *)

\* a page: its leading byte, then 'A's up to the page size
PageOf(lead) == [i \in 1..PageUnit |-> IF i = 1 THEN lead ELSE 65]

RECURSIVE PagesOf(_)
PagesOf(leads) == IF leads = <<>> THEN <<>> ELSE PageOf(Head(leads)) \o PagesOf(Tail(leads))

\* f with the byte at offset o replaced by b
Patch(f, o, b) == [f EXCEPT ![o + 1] = b]

\* the signature intact, its first byte changed, its last byte changed
SigPatches == {<<0, 83>>, <<0, 84>>, <<15, 32>>}

\* the two bytes of the page-size field: 0, 1, 50, 1024, 65535
PageSizeFields == {<<0, 0>>, <<0, 1>>, <<0, 50>>, <<4, 0>>, <<255, 255>>}

\* the write and read version bytes
VersionFields == {<<1, 1>>, <<2, 2>>, <<3, 0>>}

\* the three payload-fraction bytes
PayloadFields == {<<64, 32, 32>>, <<65, 32, 32>>, <<64, 200, 32>>, <<64, 32, 0>>}

\* the leading bytes of the pages after the header
TailLeads == {<<>>, <<13>>, <<200, 13>>, <<0, 13>>}

\* the lengths a file is cut to, below the length of the header
ShortLens == {0, 16, 99}

HeaderOf(sg, ps, ver, pay) ==
    LET h1 == Patch(BaseHeader, sg[1], sg[2])
        h2 == Patch(Patch(h1, 16, ps[1]), 17, ps[2])
        h3 == Patch(Patch(h2, 18, ver[1]), 19, ver[2])
    IN  Patch(Patch(Patch(h3, 21, pay[1]), 22, pay[2]), 23, pay[3])

Headers ==
    { HeaderOf(sg, ps, ver, pay) :
        sg \in SigPatches, ps \in PageSizeFields, ver \in VersionFields,
        pay \in PayloadFields }

MainFiles ==
    { h \o PagesOf(t) : h \in Headers, t \in TailLeads }
        \cup { SubSeq(h, 1, n) : h \in Headers, n \in ShortLens }

\* the process before main runs: the class attributes of NotionalSQLite
\* (lines 33-39) and the command line
InitMain ==
    /\ dbfile \in MainFiles
    /\ canOpen \in BOOLEAN
    /\ isOpen = FALSE
    /\ fpos = 0
    /\ statuscode = 1
    /\ headerdict = <<>>
    /\ headertransdict = <<>>
    /\ isWAL = FALSE
    /\ pc = "args"
    /\ calls = <<>>
    /\ frame \in [op : {"main"}, pagemap : BOOLEAN, content : BOOLEAN, active : BOOLEAN]
    /\ result = <<>>
    /\ fault = "none"

\* validateArgs: the run ends when the input cannot be opened; another
\* process may lock or remove the file before the session opens it again
MainValidateArgs ==
    /\ pc = "args"
    /\ IF canOpen
       THEN pc' = "construct" /\ canOpen' \in BOOLEAN
       ELSE pc' = "exit" /\ UNCHANGED canOpen
    /\ UNCHANGED <<dbfile, isOpen, fpos, statuscode, headerdict, headertransdict, isWAL,
                   calls, frame, result, fault>>

\* NotionalSQLite.__init__, _parseDBHeader included
MainConstruct ==
    /\ pc = "construct"
    /\ calls' = Append(calls, "__init__")
    /\ headertransdict' = UntranslatedDict
    /\ isOpen' = canOpen
    /\ IF ~canOpen
       THEN /\ headerdict' = UnreadHeaderDict
            /\ pc' = "status"
            /\ UNCHANGED <<fpos, statuscode, isWAL, fault>>
       ELSE LET r == ParseDBHeader(dbfile)
            IN  /\ headerdict' = r.dict
                /\ fpos' = r.pos
                /\ fault' = r.fault
                /\ IF r.fault = "none"
                   THEN /\ isWAL' = r.wal
                        /\ statuscode' = 0
                        /\ pc' = "status"
                   ELSE /\ pc' = "crashed"
                        /\ UNCHANGED <<isWAL, statuscode>>
    /\ UNCHANGED <<dbfile, canOpen, frame, result>>

\* lines 67-70
MainCheckStatus ==
    /\ pc = "status"
    /\ pc' = IF statuscode = 1 THEN "exit" ELSE "sigcheck"
    /\ UNCHANGED <<dbfile, canOpen, isOpen, fpos, statuscode, headerdict, headertransdict,
                   isWAL, calls, frame, result, fault>>

\* lines 71-77
MainCheckSignature ==
    /\ pc = "sigcheck"
    /\ calls' = Append(calls, "checkSignature")
    /\ pc' = IF CheckSignature(headerdict) THEN "translate" ELSE "exit"
    /\ UNCHANGED <<dbfile, canOpen, isOpen, fpos, statuscode, headerdict, headertransdict,
                   isWAL, frame, result, fault>>

\* lines 79-85
MainTranslateHeader ==
    /\ pc = "translate"
    /\ calls' = Append(calls, "translateHeader")
    /\ LET r == TranslateHeader(headerdict, headertransdict, isWAL)
       IN  /\ headertransdict' = r.dict
           /\ fault' = r.fault
           /\ result' = IF r.fault = "none" THEN r.dict ELSE <<>>
           /\ pc' = IF r.fault = "none" THEN "pagemap" ELSE "crashed"
    /\ UNCHANGED <<dbfile, canOpen, isOpen, fpos, statuscode, headerdict, isWAL, frame>>

\* lines 87-88 and mapPages of SQLitezer.py
MainMapPages ==
    /\ pc = "pagemap"
    /\ IF frame.pagemap
       THEN LET st == MapPagesStart(headerdict.pagesize)
            IN  /\ calls' = Append(calls, "mapPages")
                /\ IF ScanHangs(dbfile, st)
                   THEN pc' = "hang" /\ fpos' = 1 /\ UNCHANGED result
                   ELSE LET end == ScanRun(dbfile, st)
                        IN  /\ result' = ScanResult(end)
                            /\ fpos' = end.offset - end.pagesize + 1
                            /\ pc' = "content"
       ELSE pc' = "content" /\ UNCHANGED <<calls, fpos, result>>
    /\ UNCHANGED <<dbfile, canOpen, isOpen, statuscode, headerdict, headertransdict,
                   isWAL, frame, fault>>

\* lines 89-90: the query engine behind contentanalysis is outside the
\* repository; it ends the run (sys.exit) when it cannot read the database
MainContentAnalysis ==
    /\ pc = "content"
    /\ IF frame.content
       THEN /\ calls' = Append(calls, "contentanalysis")
            /\ pc' \in {"active", "exit"}
       ELSE pc' = "active" /\ UNCHANGED calls
    /\ UNCHANGED <<dbfile, canOpen, isOpen, fpos, statuscode, headerdict, headertransdict,
                   isWAL, frame, result, fault>>

\* one "getActiveRowContent" per page of the list
ActiveCalls(pages) == [i \in 1..Len(pages) |-> "getActiveRowContent"]

\* lines 91-92 and dumpActiveRows: getPageTypeDict, then getActiveRowContent
\* on every page of the leaf-table list.  A call of getActiveRowContent
\* returns, raises or never returns (the free-block walk), and leaves the
\* handle anywhere in the file; its rows are not followed here.
MainDumpActiveRows ==
    /\ pc = "active"
    /\ IF frame.active
       THEN LET st == PageTypeStart(headerdict.pagesize)
            IN  IF ScanHangs(dbfile, st)
                THEN /\ calls' = Append(calls, "getPageTypeDict")
                     /\ pc' = "hang"
                     /\ fpos' = 1
                     /\ UNCHANGED result
                ELSE LET end == ScanRun(dbfile, st)
                         pages == end.pagedict.leaftable
                     IN  /\ result' = end.pagedict
                         /\ IF pages = <<>>
                            THEN /\ calls' = Append(calls, "getPageTypeDict")
                                 /\ fpos' = end.offset - end.pagesize + 1
                                 /\ pc' = "done"
                            ELSE \/ /\ calls' = Append(calls, "getPageTypeDict")
                                                    \o ActiveCalls(pages)
                                    /\ fpos' \in 0..Len(dbfile)
                                    /\ pc' = "done"
                                 \/ \E k \in 1..Len(pages) :
                                        /\ calls' = Append(calls, "getPageTypeDict")
                                             \o ActiveCalls(SubSeq(pages, 1, k))
                                        /\ fpos' \in 0..Len(dbfile)
                                        /\ pc' \in {"crashed", "hang"}
       ELSE pc' = "done" /\ UNCHANGED <<calls, fpos, result>>
    /\ UNCHANGED <<dbfile, canOpen, isOpen, statuscode, headerdict, headertransdict,
                   isWAL, frame, fault>>

NextMain ==
    \/ MainValidateArgs
    \/ MainConstruct
    \/ MainCheckStatus
    \/ MainCheckSignature
    \/ MainTranslateHeader
    \/ MainMapPages
    \/ MainContentAnalysis
    \/ MainDumpActiveRows

SpecMain == InitMain /\ [][NextMain]_vars

-----------------------------------------------------------------------------
(* The scan specification: a session on a file of a header and up to       *)
(* MaxScanPages pages, the last one possibly cut short, and calls of       *)
(* getPageTypeDict and mapPages, one turn of the loop at a time.           *)

\* the leading bytes: the five page types, 'S' of the header, an unknown one
PageBytes == {0, 2, 5, 10, 13, 83, 200}

\* the pages after the header: whole pages, or the last cut to one byte
ScanTails ==
    { PagesOf(l) : l \in SeqsOf(PageBytes, 0, MaxScanPages) }
        \cup { PagesOf(SubSeq(l, 1, Len(l) - 1)) \o <<l[Len(l)]>> :
                 l \in SeqsOf(PageBytes, 1, MaxScanPages) }

ScanFiles == { Patch(BaseHeader, 0, b) \o t : b \in PageBytes, t \in ScanTails }

\* the page sizes the scans are called with
ScanPageSizes == {0, PageUnit, 2 * PageUnit}

InitScan == \E f \in ScanFiles : Opened(f)

\* getPageTypeDict(pagesize) up to its loop
GetPageTypeDictCall(pagesize) ==
    /\ pc = "idle"
    /\ pc' = "scan"
    /\ frame' = PageTypeStart(pagesize)
    /\ result' = <<>>
    /\ fault' = "none"
    /\ UNCHANGED <<dbfile, canOpen, isOpen, fpos, statuscode, headerdict,
                   headertransdict, isWAL, calls>>

\* mapPages(pagesize) up to its loop
MapPagesCall(pagesize) ==
    /\ pc = "idle"
    /\ pc' = "scan"
    /\ frame' = MapPagesStart(pagesize)
    /\ result' = <<>>
    /\ fault' = "none"
    /\ UNCHANGED <<dbfile, canOpen, isOpen, fpos, statuscode, headerdict,
                   headertransdict, isWAL, calls>>

\* one turn of the loop of the running scan
ScanStep ==
    /\ pc = "scan"
    /\ ~ScanOver(dbfile, frame)
    /\ frame.turns < MaxTurns
    /\ frame' = ScanIter(dbfile, frame)
    /\ fpos' = frame.offset + 1
    /\ UNCHANGED <<dbfile, canOpen, isOpen, statuscode, headerdict, headertransdict,
                   isWAL, pc, calls, result, fault>>

\* the loop is over: the scan returns
ScanReturn ==
    /\ pc = "scan"
    /\ ScanOver(dbfile, frame)
    /\ result' = ScanResult(frame)
    /\ pc' = "idle"
    /\ UNCHANGED <<dbfile, canOpen, isOpen, fpos, statuscode, headerdict,
                   headertransdict, isWAL, calls, frame, fault>>

NextScan ==
    \/ \E pagesize \in ScanPageSizes : GetPageTypeDictCall(pagesize)
    \/ \E pagesize \in ScanPageSizes : MapPagesCall(pagesize)
    \/ ScanStep
    \/ ScanReturn

SpecScan == InitScan /\ [][NextScan]_vars

-----------------------------------------------------------------------------
(* Calls of _parseTableLeafPageHeader and getUnallocContent on one page *)

\* where the two free blocks of a page lie, as offsets in the page
FreeA == 2 * (PageUnit \div 5)
FreeB == 3 * (PageUnit \div 5)

\* a 16-bit field as two bytes, most significant first
Short2(n) == <<n \div 256, n % 256>>

\* the 16-bit pattern whose signed value lies just before the start of the file
BeforeFile == 65536 - (HeaderLen + 1)

\* a table-leaf page: its header fields, the two free blocks as
\* <<next, size>>, and the byte that fills the rest
LeafPage(fb, cc, ca, a, b, fill) ==
    LET head == <<13>> \o Short2(fb) \o Short2(cc) \o Short2(ca) \o <<0>>
        blockA == Short2(a[1]) \o Short2(a[2])
        blockB == Short2(b[1]) \o Short2(b[2])
    IN  [i \in 1..PageUnit |->
            IF i <= 8 THEN head[i]
            ELSE IF i > FreeA /\ i <= FreeA + 4 THEN blockA[i - FreeA]
            ELSE IF i > FreeB /\ i <= FreeB + 4 THEN blockB[i - FreeB]
            ELSE fill]

FreeblockOfsFields == {0, FreeA, FreeB, BeforeFile}
CellCountFields == {0, 2, PageUnit, 65535}
ContentAreaFields == {0, 12, PageUnit - 10, 32768}
NextFields == {0, FreeA, FreeB, PageUnit + 10}
BlockSizes == {<<4, 10>>, <<10, 2>>}
FillBytes == {0, 65}

LeafPages ==
    { LeafPage(fb, cc, ca, <<na, sz[1]>>, <<nb, sz[2]>>, fill) :
        fb \in FreeblockOfsFields, cc \in CellCountFields, ca \in ContentAreaFields,
        na \in NextFields, nb \in NextFields, sz \in BlockSizes, fill \in FillBytes }

\* pages cut short: in the fixed fields, and inside a free block
CutLens == {0, 5, 7, FreeA + 1, FreeB + 3}

PageFiles ==
    { BaseHeader \o pg : pg \in LeafPages }
        \cup { BaseHeader \o SubSeq(pg, 1, n) : pg \in LeafPages, n \in CutLens }

InitPage == \E f \in PageFiles : Opened(f)

\* a call of op(offset, pagesize) up to the free-block loop of line 94
PageCall(op, offset, pagesize) ==
    /\ pc = "idle"
    /\ LET st == LeafHeaderStart(dbfile, op, offset, pagesize)
       IN  /\ frame' = st
           /\ fault' = st.fault
           /\ fpos' = st.pos
           /\ pc' = IF st.fault = "none" THEN "walk" ELSE "raised"
    /\ result' = <<>>
    /\ UNCHANGED <<dbfile, canOpen, isOpen, statuscode, headerdict, headertransdict,
                   isWAL, calls>>

ParseTableLeafPageHeaderCall(offset, pagesize) ==
    PageCall("_parseTableLeafPageHeader", offset, pagesize)

GetUnallocContentCall(offset, pagesize) ==
    PageCall("getUnallocContent", offset, pagesize)

\* one turn of the free-block loop
WalkStep ==
    /\ pc = "walk"
    /\ frame.freeblkptr /= 0
    /\ Len(frame.freeblklist) < (frame.pagesize \div 4) + MaxOverrun
    /\ LET st == FreeblockIter(dbfile, frame)
       IN  /\ frame' = st
           /\ fault' = st.fault
           /\ fpos' = st.pos
           /\ pc' = IF st.fault = "none" THEN "walk" ELSE "raised"
    /\ UNCHANGED <<dbfile, canOpen, isOpen, statuscode, headerdict, headertransdict,
                   isWAL, calls, result>>

\* the loop is over: _parseTableLeafPageHeader returns to its caller
ParseTableLeafPageHeaderReturn ==
    /\ pc = "walk"
    /\ frame.op = "_parseTableLeafPageHeader"
    /\ frame.freeblkptr = 0
    /\ result' = LeafHeaderResult(frame)
    /\ pc' = "idle"
    /\ UNCHANGED <<dbfile, canOpen, isOpen, fpos, statuscode, headerdict,
                   headertransdict, isWAL, calls, frame, fault>>

\* the loop is over: getUnallocContent builds its list and returns
GetUnallocContentReturn ==
    /\ pc = "walk"
    /\ frame.op = "getUnallocContent"
    /\ frame.freeblkptr = 0
    /\ LET r == UnallocContent(dbfile, frame)
       IN  /\ result' = r.list
           /\ fault' = r.fault
           /\ fpos' = r.pos
           /\ pc' = IF r.fault = "none" THEN "idle" ELSE "raised"
    /\ UNCHANGED <<dbfile, canOpen, isOpen, statuscode, headerdict, headertransdict,
                   isWAL, calls, frame>>

NextPage ==
    \/ ParseTableLeafPageHeaderCall(HeaderLen, PageUnit)
    \/ GetUnallocContentCall(HeaderLen, PageUnit)
    \/ WalkStep
    \/ ParseTableLeafPageHeaderReturn
    \/ GetUnallocContentReturn

SpecPage == InitPage /\ [][NextPage]_vars

-----------------------------------------------------------------------------
(* C1, C2: the offset-based varint decode. *)

\* the n bytes at offset o are a varint: all but the last have bit 7 set
IsVarintAt(f, o, n) ==
    /\ o + n <= Len(f)
    /\ \A k \in 1..(n - 1) : f[o + k] >= 128
    /\ f[o + n] < 128

\* the value the format gives those n bytes, limb by limb: the terminal
\* byte unmasked, then the continuation bytes & 0x7F, the last one first
FormatLimbs(f, o, n) ==
    [p \in 1..n |-> IF p = 1 THEN f[o + n] ELSE f[o + n - p + 1] % 128]

RECURSIVE StripZeros(_)
StripZeros(v) ==
    IF v /= <<>> /\ v[Len(v)] = 0 THEN StripZeros(SubSeq(v, 1, Len(v) - 1)) ELSE v

\* the same value as a number: (byte & 0x7F) * 128^position, plus the last byte
RECURSIVE FormatValue(_, _, _)
FormatValue(f, o, n) ==
    IF n = 1 THEN f[o + 1]
    ELSE (f[o + 1] % 128) * Pow2(7 * (n - 1)) + FormatValue(f, o + 1, n - 1)

\* the bytes at offset o begin with the sequence b
BytesAt(f, o, b) == o + Len(b) <= Len(f) /\ SubSeq(f, o + 1, o + Len(b)) = b

\* C1: for a well-formed varint of 1 to 9 bytes at the offset, _getVarIntOfs
\* returns its length and the value the format defines; [0x00] gives (0,1),
\* [0x05] gives (5,1), [0x81,0x00] gives (128,2), [0xFF,0x01] gives (16257,2).
Thm_C1 ==
    frame.op = "_getVarIntOfs" =>
        /\ \A n \in 1..9 :
              IsVarintAt(dbfile, frame.offset, n) =>
                  /\ fault = "none"
                  /\ result[2] = n
                  /\ result[1] = StripZeros(FormatLimbs(dbfile, frame.offset, n))
                  /\ n <= 4 => BigToNat(result[1]) = FormatValue(dbfile, frame.offset, n)
        /\ BytesAt(dbfile, frame.offset, <<0>>) =>
              fault = "none" /\ result[2] = 1 /\ BigToNat(result[1]) = 0
        /\ BytesAt(dbfile, frame.offset, <<5>>) =>
              fault = "none" /\ result[2] = 1 /\ BigToNat(result[1]) = 5
        /\ BytesAt(dbfile, frame.offset, <<129, 0>>) =>
              fault = "none" /\ result[2] = 2 /\ BigToNat(result[1]) = 128
        /\ BytesAt(dbfile, frame.offset, <<255, 1>>) =>
              fault = "none" /\ result[2] = 2 /\ BigToNat(result[1]) = 16257

\* a 9-byte varint has been decoded
Wit_C1 ==
    /\ frame.op = "_getVarIntOfs"
    /\ IsVarintAt(dbfile, frame.offset, 9)
    /\ fault = "none"
    /\ result[2] = 9
    /\ result[1] = <<1, 127, 127, 127, 127, 127, 127, 127, 127>>

\* C2: the decode reads at most 9 bytes, never returns a length above 9, and
\* ends in an error when the first 9 bytes all have bit 7 set.
Cex_C2 ==
    frame.op = "_getVarIntOfs" =>
        /\ fpos - frame.offset <= 9
        /\ fault = "none" => result[2] <= 9
        /\ (\A n \in 1..9 : ~IsVarintAt(dbfile, frame.offset, n)) => fault /= "none"

-----------------------------------------------------------------------------
(* C3 to C6: the header stage of a run. *)

\* the session method m has been called
Called(m) == \E i \in 1..Len(calls) : calls[i] = m

\* the header stage of main (lines 65-77) is behind
HeaderStageOver == pc \notin {"args", "construct", "status", "sigcheck"}

\* the run went on to line 79
PastHeader == pc = "translate" \/ Called("translateHeader")

\* the first 16 bytes of the file are the magic string
MagicFile == Len(dbfile) >= 16 /\ SubSeq(dbfile, 1, 16) = Magic

\* none of the calls that follow the header stage has been made
NoLaterCall ==
    \A m \in {"translateHeader", "mapPages", "getPageTypeDict",
              "getActiveRowContent", "contentanalysis"} : ~Called(m)

\* C3 as claimed: the run goes past the header stage if and only if the
\* file could be opened and its first 16 bytes are the magic string;
\* otherwise it ends before any later call.
Cex_C3 ==
    /\ HeaderStageOver => (PastHeader <=> (isOpen /\ MagicFile))
    /\ (HeaderStageOver /\ ~(isOpen /\ MagicFile)) =>
          (pc \in {"exit", "crashed"} /\ NoLaterCall)

\* C3 as amended: the run goes past the header stage if and only if the
\* file could be opened, holds the 100 bytes of a header and begins with
\* the magic string; in every other case it ends, by sys.exit or by the
\* exception of the constructor, before any later call.
Thm_C3 ==
    /\ HeaderStageOver =>
          (PastHeader <=> (isOpen /\ Len(dbfile) >= HeaderLen /\ MagicFile))
    /\ ~(isOpen /\ Len(dbfile) >= HeaderLen /\ MagicFile) => NoLaterCall
    /\ (HeaderStageOver /\ ~PastHeader) => pc \in {"exit", "crashed"}

\* a run on a file with a wrong signature has ended at line 77
Wit_C3 ==
    /\ pc = "exit"
    /\ isOpen
    /\ Len(dbfile) >= HeaderLen
    /\ ~MagicFile
    /\ calls = <<"__init__", "checkSignature">>

\* C4: on a file of fewer than 100 bytes the constructor returns with the
\* session marked failed, no exception escapes it, and the status check of
\* the caller stops the run.
Cex_C4 ==
    (Called("__init__") /\ isOpen /\ Len(dbfile) < HeaderLen) =>
        /\ fault = "none"
        /\ statuscode = 1
        /\ pc \in {"status", "exit"}

\* s begins with the string p
BeginsWith(s, p) == Len(s) >= Len(p) /\ SubSeq(s, 1, Len(p)) = p

\* the unsigned 16-bit page-size field of the file
PageSizeField == dbfile[17] * 256 + dbfile[18]

\* C5: when translateHeader has completed, a page-size field of 1 is
\* rendered as 65536, every other value as the decimal value of the
\* unsigned field.
Cex_C5 ==
    (Called("translateHeader") /\ fault = "none") =>
        IF PageSizeField = 1
        THEN BeginsWith(headertransdict.pagesize, "65536")
        ELSE headertransdict.pagesize = Str(PageSizeField)

\* the keys of the payload fractions, the byte offset and the required value
PayloadKeys ==
    {<<"maxpayload", 21, 64>>, <<"minpayload", 22, 32>>, <<"leafpayload", 23, 32>>}

\* C6: with a payload fraction off its required value translateHeader
\* completes, renders each such field as 'Invalid value: N' and translates
\* every other field.
Cex_C6 ==
    (Called("translateHeader")
        /\ \E k \in PayloadKeys : UnpackSByte(dbfile[k[2] + 1]) /= k[3]) =>
        /\ fault = "none"
        /\ pc /= "crashed"
        /\ \A k \in PayloadKeys :
              headertransdict[k[1]] =
                  IF UnpackSByte(dbfile[k[2] + 1]) = k[3] THEN Str(k[3])
                  ELSE "Invalid value: " \o Str(UnpackSByte(dbfile[k[2] + 1]))
        /\ \A key \in DictKeys \ {"sig", "validfor", "sqlver"} :
              headertransdict[key] /= UntranslatedDict[key]

-----------------------------------------------------------------------------
(* C7, C8: the page-type scan. *)

\* getPageTypeDict has returned; frame still holds its final locals
PageTypeReturned == pc = "idle" /\ frame.op = "getPageTypeDict"

\* the offsets of the file aligned to the page size
Aligned(f, pagesize) ==
    { o \in 0..(Len(f) - 1) : IF pagesize = 0 THEN o = 0 ELSE o % pagesize = 0 }

\* the key of the list and the leading byte of each category
Categories ==
    {<<"intindex", 2>>, <<"inttable", 5>>, <<"leafindex", 10>>,
     <<"leaftable", 13>>, <<"overflow", 0>>}

\* the sequence l holds the value o
Holds(l, o) == \E i \in 1..Len(l) : l[i] = o

\* C7: the scan visits every aligned offset below the file size: after a
\* page with an unknown leading byte, every later page with leading byte
\* 2, 5, 10, 13 or 0 is still in the list of its category.
Cex_C7 ==
    PageTypeReturned =>
        \A o \in Aligned(dbfile, frame.pagesize) :
            \A c \in Categories : dbfile[o + 1] = c[2] => Holds(result[c[1]], o)

\* the offsets the returned scan has visited: those below its final offset,
\* and the final offset when the loop ended in break
Visited ==
    { o \in Aligned(dbfile, frame.pagesize) :
        o < frame.offset \/ (frame.broke /\ o = frame.offset) }

\* C8: in the dictionary getPageTypeDict returns, each list holds exactly the
\* visited offsets whose leading byte is the byte of its category, each a
\* multiple of the page size, in strictly ascending order; no offset is in
\* two lists or twice in one.
Thm_C8 ==
    PageTypeReturned =>
        /\ \A c \in Categories :
              LET l == result[c[1]]
              IN  /\ \A i \in 1..Len(l) :
                        /\ l[i] \in Visited
                        /\ dbfile[l[i] + 1] = c[2]
                        /\ \E k \in 0..Len(dbfile) : l[i] = k * frame.pagesize
                  /\ \A o \in Visited : dbfile[o + 1] = c[2] => Holds(l, o)
                  /\ \A i \in 1..Len(l) : \A j \in 1..Len(l) : i < j => l[i] < l[j]
        /\ \A c \in Categories : \A d \in Categories :
              c /= d => \A i \in 1..Len(result[c[1]]) : ~Holds(result[d[1]], result[c[1]][i])

\* a scan of three pages has returned two leaf-table pages and an
\* interior-index page
Wit_C8 ==
    /\ PageTypeReturned
    /\ frame.pagesize = PageUnit
    /\ Len(result.leaftable) = 2
    /\ Len(result.intindex) = 1
    /\ result.overflow = <<PageUnit>>


-----------------------------------------------------------------------------
(* C9, C10: the free-block walk and the slack regions of a page *)

\* C9: the free-block walk of the table-leaf page header decode is bounded:
\* while it runs it has followed at most pageSize / 4 blocks (a cyclic chain
\* is refused by then).
Cex_C9 ==
    pc = "walk" => Len(frame.freeblklist) <= frame.pagesize \div 4

\* C10: getUnallocContent returns 1 + k regions for a chain of k free blocks,
\* the gap first: it starts at pageOffset + 8 + 2 * cellCount and its length
\* contentAreaOffset - (8 + 2 * cellCount) is never negative.
Cex_C10 ==
    (pc = "idle" /\ frame.op = "getUnallocContent" /\ fault = "none") =>
        LET cellCount == IF frame.pageheader.pagecellcount > 0
                         THEN frame.pageheader.pagecellcount ELSE 0
        IN  /\ Len(result) = 1 + Len(frame.freeblklist)
            /\ result[1][1] = frame.offset + 8 + 2 * cellCount
            /\ result[1][3] = frame.pageheader.contentareaofs - (8 + 2 * cellCount)
            /\ result[1][3] >= 0

-----------------------------------------------------------------------------
(* Calls of _strip_nonprintable on byte strings over a small alphabet that *)
(* holds the ends of both control ranges and their neighbours.             *)

\* longest byte string _strip_nonprintable is called with
MaxStripLen == 3

\* 0x00, 0x1F, 0x20, 0x7F, 0x9F, 0xA0, 0xFF
StripBytes == {0, 31, 32, 127, 159, 160, 255}

InitStrip == Opened(BaseHeader)

\* _strip_nonprintable(s): the handle is not touched
StripNonprintableCall(s) ==
    /\ pc = "idle"
    /\ frame' = [op |-> "_strip_nonprintable", s |-> s]
    /\ result' = StripNonprintable(s)
    /\ UNCHANGED <<dbfile, canOpen, isOpen, fpos, statuscode, headerdict,
                   headertransdict, isWAL, pc, calls, fault>>

NextStrip == \E s \in SeqsOf(StripBytes, 0, MaxStripLen) : StripNonprintableCall(s)

SpecStrip == InitStrip /\ [][NextStrip]_vars

-----------------------------------------------------------------------------
(* C11: the sanitizer *)

\* the bytes 0x00-0x1F and 0x7F-0x9F
ControlRange == (0..31) \cup (127..159)

\* s without its bytes of the control ranges, the others in their order
RECURSIVE KeptBytes(_)
KeptBytes(s) ==
    IF s = <<>> THEN <<>>
    ELSE IF Head(s) \in ControlRange THEN KeptBytes(Tail(s))
    ELSE <<Head(s)>> \o KeptBytes(Tail(s))

\* C11: _strip_nonprintable returns its input without the bytes 0x00-0x1F
\* and 0x7F-0x9F: none of them is left, every other byte is kept in order,
\* and sanitizing the output again returns it unchanged.
Thm_C11 ==
    frame.op = "_strip_nonprintable" =>
        /\ \A i \in 1..Len(result) : result[i] \notin ControlRange
        /\ result = KeptBytes(frame.s)
        /\ StripNonprintable(result) = result

\* a string with a byte of each control range around a kept byte
Wit_C11 ==
    /\ frame.op = "_strip_nonprintable"
    /\ frame.s = <<159, 160, 31>>
    /\ result = <<160>>

-----------------------------------------------------------------------------
(* _parseCellHeader, _parseCell *)

\* the one element of a singleton; { F(x) : x \in {e} } has the model
\* checker work out e once, however often F uses x
TheOne(S) == CHOOSE x \in S : TRUE

\* a varint value as a number of the model; a value of more than four
\* limbs lies beyond every offset and width of the files of the model and
\* is kept as 2^28
VarNat(v) == IF Len(v) <= 4 THEN BigToNat(v) ELSE Pow2(28)

\* fieldtype % 2 == 0, from the lowest limb
VarEven(v) == (IF v = <<>> THEN 0 ELSE v[1]) % 2 = 0

\* SerialEntry with every serial type taken as a BLOB
SerialEntryBlob(fieldtype) == <<"ST_BLOB", (VarNat(fieldtype) - 12) \div 2>>

\* lines 195-221: the entry of headerlist for a serial type
SerialEntry(fieldtype) ==
    LET n == VarNat(fieldtype)
    IN  IF n = 0 THEN <<"NULL", 0>>
        ELSE IF n = 1 THEN <<"ST_INT8", 1>>
        ELSE IF n = 2 THEN <<"ST_INT16", 2>>
        ELSE IF n = 3 THEN <<"ST_INT24", 3>>
        ELSE IF n = 4 THEN <<"ST_INT32", 4>>
        ELSE IF n = 5 THEN <<"ST_INT48", 6>>
        ELSE IF n = 6 THEN <<"ST_INT64", 8>>
        ELSE IF n = 7 THEN <<"ST_FLOAT", 8>>
        ELSE IF n = 8 THEN <<"ST_C0", 0>>
        ELSE IF n = 9 THEN <<"ST_C1", 0>>
        ELSE IF n > 11
        THEN IF VarEven(fieldtype) THEN <<"ST_BLOB", (n - 12) \div 2>>
             ELSE <<"ST_TEXT", (n - 13) \div 2>>
        ELSE <<"Reserved: " \o Str(n), 0>>

\* lines 192-222: the loop over the serial types, from its locals
RECURSIVE CellHeaderLoop(_, _, _, _, _)
CellHeaderLoop(f, offset, payloadheaderlenofs, headerlist, pos) ==
    IF ~(offset < payloadheaderlenofs)
    THEN [fault |-> "none", headerlist |-> headerlist, offset |-> offset, pos |-> pos]
    ELSE TheOne({ IF r.fault /= "none"
                  THEN [fault |-> r.fault, headerlist |-> headerlist,
                        offset |-> offset, pos |-> r.pos]
                  ELSE CellHeaderLoop(f, offset + r.len, payloadheaderlenofs,
                                      Append(headerlist, SerialEntry(r.val)), r.pos) :
                  r \in {GetVarIntOfs(f, offset)} })

\* _parseCellHeader(offset): headerlist, offset, payloadlen, recordnum, with
\* the exception raised and the position of the handle
ParseCellHeader(f, offset) ==
    LET a == GetVarIntOfs(f, offset)
        b == GetVarIntOfs(f, offset + a.len)
        c == GetVarIntOfs(f, offset + a.len + b.len)
        failed(r) == [fault |-> r.fault, headerlist |-> <<>>, offset |-> offset,
                      pos |-> r.pos, payloadlen |-> <<>>, recordnum |-> <<>>]
    IN  IF a.fault /= "none" THEN failed(a)
        ELSE IF b.fault /= "none" THEN failed(b)
        ELSE IF c.fault /= "none" THEN failed(c)
        ELSE LET l == CellHeaderLoop(f, offset + a.len + b.len + c.len,
                                     offset + a.len + b.len + VarNat(c.val),
                                     <<>>, c.pos)
             IN  [fault |-> l.fault, headerlist |-> l.headerlist, offset |-> l.offset,
                  pos |-> l.pos, payloadlen |-> a.val, recordnum |-> b.val]

\* struct.unpack(">q", eight bytes): the value is
\* v[1] * 2^32 + v[2] * 2^16 + v[3], v[1] signed
UnpackQuad(b) ==
    <<UnpackInt(SubSeq(b, 1, 4)), UnpackUShort(SubSeq(b, 5, 6)),
      UnpackUShort(SubSeq(b, 7, 8))>>

\* the values of celldatalist, each with its Python type
PyInt(n) == [t |-> "int", v |-> n]
PyVarInt(v) == [t |-> "varint", v |-> v]
PyQuad(b) == [t |-> "int64", v |-> UnpackQuad(b)]
PyFloat(b) == [t |-> "float", v |-> b]
PyStr(s) == [t |-> "str", v |-> s]
PyBytes(b) == [t |-> "bytes", v |-> b]

\* the n bytes a field reads at dataoffset
FieldRaw(f, st, n) == FileRead(f, st.dataoffset, n)

\* a field that reads n bytes at dataoffset and unpacks them to val, then
\* moves dataoffset by step: a short read is a struct.error
UnpackField(f, st, n, step, val) ==
    LET raw == FieldRaw(f, st, n)
    IN  IF Len(raw) < n
        THEN [st EXCEPT !.fault = "struct.error",
                        !.pos = PosAfterRead(f, st.dataoffset, n)]
        ELSE [st EXCEPT !.celldatalist = Append(@, val),
                        !.pos = st.dataoffset + n,
                        !.dataoffset = @ + step]

\* lines 123-166: one turn of the loop over cellheader, for the entry field
CellField(f, st, field) ==
    IF field[1] = "NULL"
    THEN [st EXCEPT !.celldatalist = Append(@, PyVarInt(st.recordnum))]
    ELSE IF field[1] = "ST_INT8"
    THEN UnpackField(f, st, 1, field[2], PyInt(FieldRaw(f, st, 1)[1]))
    ELSE IF field[1] = "ST_INT16"
    THEN UnpackField(f, st, 2, field[2], PyInt(UnpackShort(FieldRaw(f, st, 2))))
    ELSE IF field[1] = "ST_INT24"
    THEN [st EXCEPT !.celldatalist = Append(@, PyStr("ST_INT24 - NOT IMPLEMENTED!")),
                    !.pos = st.dataoffset,
                    !.dataoffset = @ + field[2]]
    ELSE IF field[1] = "ST_INT32"
    THEN UnpackField(f, st, 4, field[2], PyInt(UnpackInt(FieldRaw(f, st, 4))))
    ELSE IF field[1] = "ST_INT48"
    THEN [st EXCEPT !.celldatalist = Append(@, PyStr("ST_INT48 - NOT IMPLEMENTED!")),
                    !.pos = st.dataoffset,
                    !.dataoffset = @ + field[2]]
    ELSE IF field[1] = "ST_INT64"
    THEN UnpackField(f, st, 8, 8, PyQuad(FieldRaw(f, st, 8)))
    ELSE IF field[1] = "ST_FLOAT"
    THEN UnpackField(f, st, 8, 8, PyFloat(FieldRaw(f, st, 8)))
    ELSE IF field[1] = "ST_C0"
    THEN [st EXCEPT !.celldatalist = Append(@, PyStr("ST_C0 - NOT IMPLEMENTED!"))]
    ELSE IF field[1] = "ST_C1"
    THEN [st EXCEPT !.celldatalist = Append(@, PyStr("ST_C0 - NOT IMPLEMENTED!"))]
    ELSE IF field[1] = "ST_BLOB"
    THEN [st EXCEPT !.celldatalist =
                        Append(@, PyBytes(FileRead(f, st.dataoffset, field[2]))),
                    !.pos = PosAfterRead(f, st.dataoffset, field[2]),
                    !.dataoffset = @ + field[2]]
    ELSE IF field[1] = "ST_TEXT"
    THEN UnpackField(f, st, field[2], field[2], PyBytes(FieldRaw(f, st, field[2])))
    ELSE st

\* lines 119-120: the locals of _parseCell(offset) before its loop; i is the
\* number of entries of cellheader the loop has taken
CellStart(f, offset) ==
    LET h == ParseCellHeader(f, offset)
    IN  [op |-> "_parseCell", offset |-> offset, fault |-> h.fault, pos |-> h.pos,
         cellheader |-> h.headerlist, dataoffset |-> h.offset,
         payloadlen |-> h.payloadlen, recordnum |-> h.recordnum,
         celldatalist |-> <<>>, i |-> 0]

\* the loop of line 122 has ended
CellOver(st) == st.fault /= "none" \/ st.i >= Len(st.cellheader)

\* one turn of the loop of line 122
CellIter(f, st) == [CellField(f, st, st.cellheader[st.i + 1]) EXCEPT !.i = @ + 1]

\* _parseCell(offset) run to its end
RECURSIVE CellRun(_, _)
CellRun(f, st) ==
    IF CellOver(st) THEN st ELSE TheOne({ CellRun(f, next) : next \in {CellIter(f, st)} })

-----------------------------------------------------------------------------
(* Calls of _parseCellHeader and _parseCell on one cell after the header:  *)
(* payload length, row id, header length, the serial types, the payload.   *)

\* the most serial types in the record header of a cell
MaxFields == 2

\* a number below 2^14 as a varint of one or two bytes
VarintOf(n) == IF n < 128 THEN <<n>> ELSE <<128 + (n \div 128), n % 128>>

\* the serial types of the cells: every fixed code, the two reserved ones,
\* short BLOBs and TEXTs, and a BLOB whose code takes two bytes
CellCodes == (0..15) \cup {128}

RECURSIVE CodeBytes(_)
CodeBytes(codes) ==
    IF codes = <<>> THEN <<>> ELSE VarintOf(Head(codes)) \o CodeBytes(Tail(codes))

\* payload bytes: all 0xFF, a ramp behind 0x80, and both cut short
CellPayloads ==
    { [i \in 1..(8 * MaxFields) |-> 255],
      [i \in 1..(8 * MaxFields) |-> IF i = 1 THEN 128 ELSE i],
      <<255>>, <<>> }

\* the row id of the cells
CellRowId == 7

CellBytes(codes, payload) ==
    <<Len(payload) % 128, CellRowId, 1 + Len(CodeBytes(codes))>>
        \o CodeBytes(codes) \o payload

CellFiles ==
    { BaseHeader \o CellBytes(codes, payload) :
        codes \in SeqsOf(CellCodes, 0, MaxFields), payload \in CellPayloads }

InitCell == \E f \in CellFiles : Opened(f)

\* _parseCellHeader(offset)
ParseCellHeaderCall(offset) ==
    /\ pc = "idle"
    /\ LET h == ParseCellHeader(dbfile, offset)
       IN  /\ frame' = [op |-> "_parseCellHeader", offset |-> offset]
           /\ fault' = h.fault
           /\ fpos' = h.pos
           /\ result' = IF h.fault = "none"
                        THEN <<h.headerlist, h.offset, h.payloadlen, h.recordnum>>
                        ELSE <<>>
    /\ UNCHANGED <<dbfile, canOpen, isOpen, statuscode, headerdict, headertransdict,
                   isWAL, pc, calls>>

\* _parseCell(offset) up to its loop
ParseCellCall(offset) ==
    /\ pc = "idle"
    /\ LET st == CellStart(dbfile, offset)
       IN  /\ frame' = st
           /\ fault' = st.fault
           /\ fpos' = st.pos
           /\ pc' = IF st.fault = "none" THEN "fields" ELSE "raised"
    /\ result' = <<>>
    /\ UNCHANGED <<dbfile, canOpen, isOpen, statuscode, headerdict, headertransdict,
                   isWAL, calls>>

\* one turn of the loop over cellheader
CellFieldStep ==
    /\ pc = "fields"
    /\ ~CellOver(frame)
    /\ LET st == CellIter(dbfile, frame)
       IN  /\ frame' = st
           /\ fault' = st.fault
           /\ fpos' = st.pos
           /\ pc' = IF st.fault = "none" THEN "fields" ELSE "raised"
    /\ UNCHANGED <<dbfile, canOpen, isOpen, statuscode, headerdict, headertransdict,
                   isWAL, calls, result>>

\* the loop is over: _parseCell returns celldatalist
ParseCellReturn ==
    /\ pc = "fields"
    /\ CellOver(frame)
    /\ result' = frame.celldatalist
    /\ pc' = "idle"
    /\ UNCHANGED <<dbfile, canOpen, isOpen, fpos, statuscode, headerdict,
                   headertransdict, isWAL, calls, frame, fault>>

NextCell ==
    \/ ParseCellHeaderCall(HeaderLen)
    \/ ParseCellCall(HeaderLen)
    \/ CellFieldStep
    \/ ParseCellReturn

SpecCell == InitCell /\ [][NextCell]_vars

-----------------------------------------------------------------------------
(* C12 - C15: cells.  The record format, read from the bytes of the file.  *)

\* the varint of one or two bytes at offset p: <<value, length>>
RecVarint(f, p) ==
    IF f[p + 1] < 128 THEN <<f[p + 1], 1>>
    ELSE <<(f[p + 1] - 128) * 128 + f[p + 2], 2>>

\* the serial types between offsets p and end, in order
RECURSIVE RecCodesFrom(_, _, _)
RecCodesFrom(f, p, end) ==
    IF p >= end THEN <<>>
    ELSE <<RecVarint(f, p)[1]>> \o RecCodesFrom(f, p + RecVarint(f, p)[2], end)

\* where the record header of the cell at offset o starts (at its length)
RecHeaderStart(f, o) ==
    LET a == RecVarint(f, o) IN o + a[2] + RecVarint(f, o + a[2])[2]

\* the serial types of the record header of the cell at offset o
RecCodes(f, o) ==
    LET h == RecHeaderStart(f, o)
    IN  RecCodesFrom(f, h + RecVarint(f, h)[2], h + RecVarint(f, h)[1])

\* the byte width of a serial type
RecWidth(code) ==
    IF code \in {0, 8, 9, 10, 11} THEN 0
    ELSE IF code \in 1..4 THEN code
    ELSE IF code = 5 THEN 6
    ELSE IF code \in {6, 7} THEN 8
    ELSE IF code % 2 = 0 THEN (code - 12) \div 2
    ELSE (code - 13) \div 2

\* the big-endian two's-complement value of 1 to 4 bytes
RECURSIVE UnsignedBE(_)
UnsignedBE(b) ==
    IF b = <<>> THEN 0 ELSE UnsignedBE(SubSeq(b, 1, Len(b) - 1)) * 256 + b[Len(b)]

SignedBE(b) ==
    (IF b[1] >= 128 THEN b[1] - 256 ELSE b[1]) * Pow2(8 * (Len(b) - 1))
        + UnsignedBE(Tail(b))

\* the same for 6 or 8 bytes, as <<the leading bytes signed, the last four
\* bytes in two halves>>
SignedWide(b) ==
    <<SignedBE(SubSeq(b, 1, Len(b) - 4)),
      UnsignedBE(SubSeq(b, Len(b) - 3, Len(b) - 2)),
      UnsignedBE(SubSeq(b, Len(b) - 1, Len(b)))>>

\* the last value of a row
LastOf(row) == row[Len(row)]

\* a turn of the loop of _parseCell has just taken the entry of this serial
\* type, and the loop goes on
FieldTaken(codes) ==
    /\ pc = "fields"
    /\ pc' = "fields"
    /\ frame'.i = frame.i + 1
    /\ RecCodes(dbfile, frame.offset)[frame.i + 1] \in codes

\* the payload bytes of the field the turn has taken
FieldBytes == FileRead(dbfile, frame.dataoffset,
                       RecWidth(RecCodes(dbfile, frame.offset)[frame.i + 1]))

\* the file holds all the payload bytes of that field
FieldWhole == Len(FieldBytes) = RecWidth(RecCodes(dbfile, frame.offset)[frame.i + 1])

\* C12: a field of serial type 1 to 6 is decoded as the sign-extended
\* big-endian integer of its 1, 2, 3, 4, 6 or 8 payload bytes (type 1 on
\* 0xFF gives -1; the 24-bit and 48-bit widths give integers too).
Cex_C12 ==
    [][ /\ (FieldTaken(1..4) /\ FieldWhole) =>
            /\ Len(frame'.celldatalist) = Len(frame.celldatalist) + 1
            /\ LastOf(frame'.celldatalist).t = "int"
            /\ LastOf(frame'.celldatalist).v = SignedBE(FieldBytes)
        /\ (FieldTaken({5, 6}) /\ FieldWhole) =>
            /\ Len(frame'.celldatalist) = Len(frame.celldatalist) + 1
            /\ LastOf(frame'.celldatalist).t = "int64"
            /\ LastOf(frame'.celldatalist).v = SignedWide(FieldBytes) ]_vars

\* C13: a field of serial type 0, 8 or 9 consumes no payload bytes and is
\* decoded as Null, as the integer 0 and as the integer 1.
Cex_C13 ==
    [][ \A code \in {0, 8, 9} :
            FieldTaken({code}) =>
                /\ frame'.dataoffset = frame.dataoffset
                /\ Len(frame'.celldatalist) = Len(frame.celldatalist) + 1
                /\ LastOf(frame'.celldatalist).t =
                       (IF code = 0 THEN "none" ELSE "int")
                /\ code = 8 => LastOf(frame'.celldatalist).v = 0
                /\ code = 9 => LastOf(frame'.celldatalist).v = 1 ]_vars

\* C14: a reserved serial type (10, 11) does not abort the row and leaves a
\* placeholder, so that the row returned holds one value per serial type of
\* the record header.
Cex_C14 ==
    (pc = "idle" /\ frame.op = "_parseCell" /\ fault = "none") =>
        Len(result) = Len(RecCodes(dbfile, frame.offset))

\* the kind the entry names, for the serial types below 12
RecName(code) ==
    <<"NULL", "ST_INT8", "ST_INT16", "ST_INT24", "ST_INT32", "ST_INT48",
      "ST_INT64", "ST_FLOAT", "ST_C0", "ST_C1">>[code + 1]

\* C15: _parseCellHeader returns one entry per serial type of the record
\* header, in order, with the kind and width of the serial-type table:
\* 0, 8, 9 width 0; 1-4 widths 1-4; 5 width 6; 6, 7 width 8; even >= 12 a
\* BLOB of (code - 12) / 2; odd >= 13 a TEXT of (code - 13) / 2.
Thm_C15 ==
    (frame.op = "_parseCellHeader" /\ fault = "none") =>
        LET codes == RecCodes(dbfile, frame.offset)
        IN  /\ Len(result[1]) = Len(codes)
            /\ \A k \in 1..Len(codes) :
                  /\ result[1][k][2] = RecWidth(codes[k])
                  /\ codes[k] <= 9 => result[1][k][1] = RecName(codes[k])
                  /\ (codes[k] >= 12 /\ codes[k] % 2 = 0) => result[1][k][1] = "ST_BLOB"
                  /\ (codes[k] >= 13 /\ codes[k] % 2 = 1) => result[1][k][1] = "ST_TEXT"

\* the header of a cell with a 48-bit integer and a BLOB whose serial type
\* takes two bytes has been decoded
Wit_C15 ==
    /\ frame.op = "_parseCellHeader"
    /\ fault = "none"
    /\ RecCodes(dbfile, frame.offset) = <<5, 128>>
    /\ result[1] = << <<"ST_INT48", 6>>, <<"ST_BLOB", 58>> >>

-----------------------------------------------------------------------------
(* C16: the payload of a free block *)

\* the 16-bit size stored at bytes 2..3 of the block at page offset blk
BlockSizeAt(f, offset, blk) == UnsignedBE(FileRead(f, offset + blk + 2, 2))

\* the bytes of the block behind its 4-byte header: size - 4 of them, none
\* when the size is below 4
BlockPayload(f, offset, blk) ==
    LET size == BlockSizeAt(f, offset, blk)
    IN  FileRead(f, offset + blk + 4, IF size > 4 THEN size - 4 ELSE 0)

\* C16: for every free block of the chain, getUnallocContent reads the
\* payload from 4 bytes after the block's offset, exactly blockSize - 4
\* bytes, and never beyond the block, whatever blockSize is.
Cex_C16 ==
    (pc = "idle" /\ frame.op = "getUnallocContent" /\ fault = "none") =>
        \A i \in 1..Len(frame.freeblklist) :
            LET blk == frame.freeblklist[i]
            IN  /\ result[i + 1][1] = frame.offset + blk
                /\ result[i + 1][3] = BlockSizeAt(dbfile, frame.offset, blk)
                /\ result[i + 1][4] = KeptBytes(BlockPayload(dbfile, frame.offset, blk))

-----------------------------------------------------------------------------
(* C17: the whole-file scans end *)

\* the run stands in a whole-file scan that never returns
ScanNeverReturns ==
    /\ pc = "hang"
    /\ calls /= <<>>
    /\ calls[Len(calls)] \in {"mapPages", "getPageTypeDict"}

\* C17: whatever the header's page-size field holds (0 and 1 included),
\* getPageTypeDict and mapPages, called with the header's page size, end
\* after a bounded number of turns.
Cex_C17 == ~ScanNeverReturns

-----------------------------------------------------------------------------
(* Two sessions in one process.  headerdict and headertransdict are class  *)
(* attributes (lines 34-35): the item assignments self.headertransdict[k]  *)
(* of __init__ and translateHeader write into the one dictionary of the    *)
(* class, while self.headerdict = dict(...) of line 108 gives the instance *)
(* a dictionary of its own.  Here headertransdict is that one dictionary,  *)
(* and dbfile, isOpen, fpos, statuscode, headerdict, isWAL and result hold *)
(* one value per session.                                                  *)

\* the most calls the two sessions make
MaxShareCalls == 4

Sessions == {"A", "B"}

\* headers that differ in page size, in versions (WAL or not), and in the
\* payload fraction that makes translateHeader raise
ShareHeaders ==
    { HeaderOf(<<0, 83>>, ps, ver, pay) :
        ps \in {<<4, 0>>, <<0, 50>>}, ver \in {<<1, 1>>, <<2, 2>>},
        pay \in {<<64, 32, 32>>, <<65, 32, 32>>} }

\* what a session has obtained from translateHeader, and its header
\* dictionary then
NothingObtained == [got |-> FALSE, hd |-> UnreadHeaderDict, td |-> UntranslatedDict]

\* session A is constructed on its file, session B is not yet
InitShare ==
    \E fa \in ShareHeaders : \E fb \in ShareHeaders \ {fa} :
        /\ dbfile = [s \in Sessions |-> IF s = "A" THEN fa ELSE fb]
        /\ canOpen = TRUE
        /\ isOpen = [s \in Sessions |-> s = "A"]
        /\ fpos = [s \in Sessions |-> IF s = "A" THEN ParseDBHeader(fa).pos ELSE 0]
        /\ statuscode = [s \in Sessions |-> IF s = "A" THEN 0 ELSE 1]
        /\ headerdict = [s \in Sessions |->
                            IF s = "A" THEN ParseDBHeader(fa).dict ELSE UnreadHeaderDict]
        /\ headertransdict = UntranslatedDict
        /\ isWAL = [s \in Sessions |-> s = "A" /\ ParseDBHeader(fa).wal]
        /\ pc = "idle"
        /\ calls = <<>>
        /\ frame = [op |-> "none"]
        /\ result = [s \in Sessions |-> NothingObtained]
        /\ fault = "none"

\* NotionalSQLite(filepath, debug) for session s: lines 47-49 write the two
\* placeholders of every key into the dictionaries of the class
ShareConstruct(s) ==
    /\ ~isOpen[s]
    /\ LET r == ParseDBHeader(dbfile[s])
       IN  /\ headertransdict' = UntranslatedDict
           /\ isOpen' = [isOpen EXCEPT ![s] = TRUE]
           /\ headerdict' = [headerdict EXCEPT ![s] = r.dict]
           /\ isWAL' = [isWAL EXCEPT ![s] = r.wal]
           /\ fpos' = [fpos EXCEPT ![s] = r.pos]
           /\ statuscode' = [statuscode EXCEPT ![s] = 0]
           /\ fault' = r.fault
    /\ calls' = Append(calls, <<s, "__init__">>)
    /\ frame' = [op |-> "__init__", session |-> s]
    /\ UNCHANGED <<dbfile, canOpen, pc, result>>

\* s.translateHeader(): it returns self.headertransdict, the dictionary of
\* the class
ShareTranslateHeader(s) ==
    /\ isOpen[s]
    /\ Len(calls) < MaxShareCalls
    /\ LET r == TranslateHeader(headerdict[s], headertransdict, isWAL[s])
       IN  /\ headertransdict' = r.dict
           /\ fault' = r.fault
           /\ result' = IF r.fault = "none"
                        THEN [result EXCEPT ![s] =
                                 [got |-> TRUE, hd |-> headerdict[s], td |-> r.dict]]
                        ELSE result
    /\ calls' = Append(calls, <<s, "translateHeader">>)
    /\ frame' = [op |-> "translateHeader", session |-> s]
    /\ UNCHANGED <<dbfile, canOpen, isOpen, fpos, statuscode, headerdict, isWAL, pc>>

NextShare ==
    \/ ShareConstruct("B")
    \/ \E s \in Sessions : ShareTranslateHeader(s)

SpecShare == InitShare /\ [][NextShare]_vars

-----------------------------------------------------------------------------
(* C18: sessions share no state *)

\* the keys whose translation is a text (sig, validfor and sqlver are copied
\* from the header as they are)
TextKeys == {k \in DictKeys : k \notin {"sig", "validfor", "sqlver"}}

\* C18: constructing session B and calling B.translateHeader, in any
\* interleaving, leave the header dictionary and the translated-header
\* dictionary obtained from session A as they were.
Cex_C18 ==
    result["A"].got =>
        /\ headerdict["A"] = result["A"].hd
        /\ \A k \in TextKeys : headertransdict[k] = result["A"].td[k]

-----------------------------------------------------------------------------
(* C19: the two page classifiers agree *)

\* what getPageTypeDict returns on the file and page size of the mapPages
\* call that has returned
PageDictOfCall == ScanResult(ScanRun(dbfile, PageTypeStart(frame.pagesize)))

\* C19: the interior-index, interior-table, leaf-index, leaf-table and
\* overflow counts mapPages returns are the lengths of the lists
\* getPageTypeDict returns for the same file and page size, and the map
\* string has one character per page, as many as the returned total.
Cex_C19 ==
    (pc = "idle" /\ frame.op = "mapPages") =>
        /\ result[2] = Len(PageDictOfCall.intindex)
        /\ result[3] = Len(PageDictOfCall.inttable)
        /\ result[4] = Len(PageDictOfCall.leafindex)
        /\ result[5] = Len(PageDictOfCall.leaftable)
        /\ result[7] = Len(PageDictOfCall.overflow)
        /\ Len(result[1]) = Cardinality(Aligned(dbfile, frame.pagesize))
        /\ Len(result[1]) = result[8]

-----------------------------------------------------------------------------
(* The methods run to their return, getActiveRowContent *)

\* the free-block loop of lines 94-97 run to its end; a walk longer than
\* the bound of the model is one that never returns ("hang")
RECURSIVE WalkRun(_, _, _)
WalkRun(f, st, fuel) ==
    IF st.fault /= "none" THEN st
    ELSE IF st.freeblkptr = 0 THEN st
    ELSE IF fuel = 0 THEN [st EXCEPT !.fault = "hang"]
    ELSE TheOne({ WalkRun(f, next, fuel - 1) : next \in {FreeblockIter(f, st)} })

\* _parseTableLeafPageHeader(offset, pagesize) run to its end, for method op
LeafHeaderRun(f, op, offset, pagesize) ==
    TheOne({ WalkRun(f, st, (pagesize \div 4) + MaxOverrun) :
             st \in {LeafHeaderStart(f, op, offset, pagesize)} })

\* lines 323-324: _parseCell on the cells of celllist from the k-th on
RECURSIVE RowsFrom(_, _, _, _, _, _)
RowsFrom(f, offset, celllist, k, rows, pos) ==
    IF k > Len(celllist) THEN [fault |-> "none", list |-> rows, pos |-> pos]
    ELSE IF offset + celllist[k] < 0
    THEN [fault |-> "IOError", list |-> rows, pos |-> pos]
    ELSE TheOne({ IF c.fault /= "none"
                  THEN [fault |-> c.fault, list |-> rows, pos |-> c.pos]
                  ELSE RowsFrom(f, offset, celllist, k + 1,
                                Append(rows, c.celldatalist), c.pos) :
                  c \in {CellRun(f, CellStart(f, offset + celllist[k]))} })

\* getActiveRowContent(offset, pagesize)
ActiveRowContent(f, offset, pagesize) ==
    TheOne({ IF h.fault /= "none"
             THEN [fault |-> h.fault, list |-> <<>>, pos |-> h.pos]
             ELSE RowsFrom(f, offset, h.celllist, 1, <<>>, h.pos) :
             h \in {LeafHeaderRun(f, "getActiveRowContent", offset, pagesize)} })

\* getUnallocContent(offset, pagesize)
UnallocContentRun(f, offset, pagesize) ==
    TheOne({ IF h.fault /= "none"
             THEN [fault |-> h.fault, list |-> <<>>, pos |-> h.pos]
             ELSE UnallocContent(f, h) :
             h \in {LeafHeaderRun(f, "getUnallocContent", offset, pagesize)} })

\* where a whole-file scan leaves the handle: behind the last byte it read
ScanPos(st, before) ==
    IF st.turns = 0 THEN before
    ELSE IF st.broke THEN st.offset + 1
    ELSE st.offset - st.pagesize + 1

-----------------------------------------------------------------------------
(* A session on a file with one table-leaf page, and sequences of calls of *)
(* its decode methods.  calls is the record of the calls made: method,     *)
(* arguments, the position of the handle when the call began, and outcome. *)

\* the most calls made in a session
MaxSessionCalls == 3

\* where the cell of the page lies, as an offset in the page
CellAt == PageUnit - 10

\* f with the bytes b written at offset o
RECURSIVE PatchAll(_, _, _)
PatchAll(f, o, b) ==
    IF b = <<>> THEN f ELSE PatchAll(Patch(f, o, Head(b)), o + 1, Tail(b))

\* a page with one cell (its pointer behind the page header) of two fields,
\* and with or without a free block
SessionPage(fb, codes) ==
    PatchAll(PatchAll(LeafPage(fb, 1, CellAt, <<0, 6>>, <<0, 4>>, 65),
                      8, Short2(CellAt)),
             CellAt, CellBytes(codes, <<255, 66>>))

SessionFiles ==
    { BaseHeader \o SessionPage(fb, codes) :
        fb \in {0, FreeA}, codes \in {<<1, 15>>, <<0, 2>>} }

InitSession == \E f \in SessionFiles : Opened(f)

\* the end of a call of method op with arguments args and outcome r
Returned(op, args, r, value) ==
    /\ pc = "idle"
    /\ Len(calls) < MaxSessionCalls
    /\ calls' = Append(calls, [op |-> op, args |-> args, at |-> fpos,
                               fault |-> r.fault, value |-> value])
    /\ frame' = [op |-> op, args |-> args]
    /\ fault' = r.fault
    /\ result' = value
    /\ fpos' = r.pos
    /\ pc' = IF r.fault = "hang" THEN "hang" ELSE "idle"
    /\ UNCHANGED <<dbfile, canOpen, isOpen, statuscode, headerdict, headertransdict,
                   isWAL>>

SessionGetVarIntOfs(offset) ==
    \E r \in {GetVarIntOfs(dbfile, offset)} :
        Returned("_getVarIntOfs", <<offset>>, r, <<r.val, r.len>>)

SessionParseTableLeafPageHeader(offset, pagesize) ==
    \E r \in {LeafHeaderRun(dbfile, "_parseTableLeafPageHeader", offset, pagesize)} :
        Returned("_parseTableLeafPageHeader", <<offset, pagesize>>, r,
                 IF r.fault = "none" THEN LeafHeaderResult(r) ELSE <<>>)

SessionParseCell(offset) ==
    \E st \in {CellStart(dbfile, offset)} : \E r \in {CellRun(dbfile, st)} :
        Returned("_parseCell", <<offset>>, r, r.celldatalist)

SessionGetActiveRowContent(offset, pagesize) ==
    \E r \in {ActiveRowContent(dbfile, offset, pagesize)} :
        Returned("getActiveRowContent", <<offset, pagesize>>, r, r.list)

SessionGetUnallocContent(offset, pagesize) ==
    \E r \in {UnallocContentRun(dbfile, offset, pagesize)} :
        Returned("getUnallocContent", <<offset, pagesize>>, r, r.list)

SessionGetPageTypeDict(pagesize) ==
    \E end \in {ScanRun(dbfile, PageTypeStart(pagesize))} :
        Returned("getPageTypeDict", <<pagesize>>,
                 [fault |-> "none", pos |-> ScanPos(end, fpos)], ScanResult(end))

SessionMapPages(pagesize) ==
    \E end \in {ScanRun(dbfile, MapPagesStart(pagesize))} :
        Returned("mapPages", <<pagesize>>,
                 [fault |-> "none", pos |-> ScanPos(end, fpos)], ScanResult(end))

NextSession ==
    \/ \E offset \in {HeaderLen, HeaderLen + CellAt} : SessionGetVarIntOfs(offset)
    \/ SessionParseTableLeafPageHeader(HeaderLen, PageUnit)
    \/ \E offset \in {HeaderLen + CellAt, HeaderLen + FreeA} : SessionParseCell(offset)
    \/ SessionGetActiveRowContent(HeaderLen, PageUnit)
    \/ SessionGetUnallocContent(HeaderLen, PageUnit)
    \/ SessionGetPageTypeDict(PageUnit)
    \/ SessionMapPages(PageUnit)

SpecSession == InitSession /\ [][NextSession]_vars

-----------------------------------------------------------------------------
(* C20: a call's result does not depend on the calls before it *)

\* two calls of the record are calls of one method with the same arguments
SameCall(i, j) == calls[i].op = calls[j].op /\ calls[i].args = calls[j].args

=============================================================================
